---- MODULE Spec2Model ----
(***************************************************************************)
(* Model of src/main.py: the foster crawler's detection-and-dedup          *)
(* pipeline.  One process run is main(); runs never overlap and share      *)
(* only the durable history file.  Strings are sequences of one-character  *)
(* strings, so that normalisation, stripping and the line format of the    *)
(* history file are computed rather than assumed.                          *)
(***************************************************************************)
EXTENDS Integers, Sequences, FiniteSets, TLC

(***************************************************************************)
(* Bounds of the model.                                                    *)
(***************************************************************************)
NumTargets == 2     \* length of TARGET_URLS
MaxItems   == 3     \* longest list an inference response decodes to
MaxRuns    == 2     \* process runs sharing the history file
MaxHour    == 23    \* datetime hours are 0..MaxHour
MaxDay     == 6     \* datetime weekdays are 0..MaxDay (Monday = 0)
MaxSegs    == 5     \* pieces a string handed to normalize_key is made of

VARIABLES
  file,            \* contents of HISTORY_FILE, a sequence of characters
  history,         \* main: the in-memory set returned by load_history
  new_findings,    \* main: raw ids promoted in this run
  pc,              \* position of the process in main
  run,             \* number of process runs started so far
  force,           \* args.force
  test_push,       \* args.test_push
  api_key,         \* GEMINI_API_KEY present in the environment
  day, hour,       \* now.weekday(), now.hour in TIMEZONE, -1 before it is read
  START_HOUR, END_HOUR, OPERATING_DAYS,
  gated,           \* check_operating_hours was called in this run
  idx,             \* 1-based position of the loop over TARGET_URLS
  items,           \* list returned by analyze_screenshot for target idx
  pos,             \* 1-based position of the loop over items
  hist0,           \* value of history when items was returned
  calls,           \* models invoked by the last analyze_screenshot call
  primaryOut,      \* what the primary call of that analysis did
  fallbackOut,     \* what the fallback call of that analysis did
  captureFailed,   \* targets of this run whose capture raised
  visited,         \* targets of this run, in the order the loop took them
  log,             \* the send_notification calls of this run, in order
  delivery,        \* what the latest send_notification call of this run did
  notified,        \* per key, the notifications sent for it over all runs
  exitCode,        \* process exit status of the last run, -1 while running
  text,            \* a string handed to normalize_key on its own
  keys             \* what normalize_key returned for text, then for that

vars == <<file, history, new_findings, pc, run, force, test_push, api_key,
          day, hour, START_HOUR, END_HOUR, OPERATING_DAYS, gated, idx,
          items, pos, hist0, calls, primaryOut, fallbackOut, captureFailed,
          visited, log, delivery, notified, exitCode, text, keys>>

(***************************************************************************)
(* Characters.                                                             *)
(***************************************************************************)
NL == "\n"
Whitespace == {" ", NL}
AsciiDigits == {"0", "1", "2", "3", "4", "5", "6", "7", "8", "9"}
\* what \d matches in a str pattern: every Unicode decimal digit; "U+0663"
\* stands for the one character ARABIC-INDIC DIGIT THREE
Digits == AsciiDigits \cup {"U+0663"}
LowerLetters == {"a", "b", "p", "x"}

\* str.lower on one character
lower(c) ==
  CASE c = "A" -> "a"
    [] c = "B" -> "b"
    [] c = "P" -> "p"
    [] c = "X" -> "x"
    [] OTHER -> c

\* str.strip: drop leading and trailing whitespace
strip(s) ==
  LET keep == {k \in 1..Len(s) : s[k] \notin Whitespace}
  IN  IF keep = {} THEN <<>>
      ELSE LET a == CHOOSE k \in keep : \A m \in keep : k <= m
               b == CHOOSE k \in keep : \A m \in keep : m <= k
           IN  SubSeq(s, a, b)

(***************************************************************************)
(* normalize_key                                                           *)
(***************************************************************************)
\* re.search(r'\d{4,}', s): the leftmost position where four digits start,
\* extended greedily to the end of that digit run; <<>> stands for no match
\* re.search(r'\d{4}', s): the first four digits of that run only
digit_match_four(s) ==
  LET starts == {k \in 1..(Len(s) - 3) : \A m \in k..(k + 3) : s[m] \in Digits}
  IN  IF starts = {} THEN <<>>
      ELSE LET a == CHOOSE k \in starts : \A m \in starts : k <= m
           IN  SubSeq(s, a, a + 3)

digit_match(s) ==
  LET starts == {k \in 1..(Len(s) - 3) : \A m \in k..(k + 3) : s[m] \in Digits}
  IN  IF starts = {} THEN <<>>
      ELSE LET a == CHOOSE k \in starts : \A m \in starts : k <= m
               b == CHOOSE k \in (a + 3)..Len(s) :
                      /\ \A m \in a..k : s[m] \in Digits
                      /\ k = Len(s) \/ s[k + 1] \notin Digits
           IN  SubSeq(s, a, b)

\* [a-z0-9]
IsAlnum(c) == c \in LowerLetters \cup AsciiDigits

normalize_key(id_text) ==
  LET found == digit_match(id_text)
  IN  IF found # <<>>
      THEN found
      ELSE SelectSeq([k \in 1..Len(id_text) |-> lower(id_text[k])], IsAlnum)

(***************************************************************************)
(* HistoryStore: load_history and save_history over the file's characters  *)
(***************************************************************************)
\* iterating a text file: each line with its newline character, and what
\* follows the last newline, if anything
RECURSIVE lines_from(_, _, _)
lines_from(f, k, cur) ==
  IF k > Len(f) THEN (IF cur = <<>> THEN <<>> ELSE <<cur>>)
  ELSE IF f[k] = NL THEN <<Append(cur, NL)>> \o lines_from(f, k + 1, <<>>)
  ELSE lines_from(f, k + 1, Append(cur, f[k]))

file_lines(f) == lines_from(f, 1, <<>>)

\* load_history without the strip: set(f)
load_history_unstripped(f) ==
  {file_lines(f)[k] : k \in 1..Len(file_lines(f))}

\* load_history taking the first line for a header
load_history_skip_first(f) ==
  LET lines == file_lines(f)
      stripped == [k \in 1..Len(lines) |-> strip(lines[k])]
  IN  {stripped[k] : k \in {m \in 2..Len(lines) : stripped[m] # <<>>}}

load_history(f) ==
  LET lines == file_lines(f)
      stripped == [k \in 1..Len(lines) |-> strip(lines[k])]
  IN  {stripped[k] : k \in {m \in 1..Len(lines) : stripped[m] # <<>>}}

\* save_history opening the file with "w"
save_history_overwrite(f, new_key) == new_key \o <<NL>>

\* save_history writing the new line in front of the others
save_history_prepend(f, new_key) == new_key \o <<NL>> \o f

save_history(f, new_key) == f \o new_key \o <<NL>>

(***************************************************************************)
(* TimeWindowGate: check_operating_hours, "exit" for sys.exit(0)           *)
(***************************************************************************)
\* check_operating_hours without the day-of-week test
check_operating_hours_no_day(d, h, start, end, days) ==
  IF ~(start <= h /\ h < end) THEN "exit"
  ELSE "proceed"

\* check_operating_hours reading start > end as a window across midnight
check_operating_hours_wrap(d, h, start, end, days) ==
  IF d \notin days THEN "exit"
  ELSE IF start <= end /\ ~(start <= h /\ h < end) THEN "exit"
  ELSE IF start > end /\ ~(start <= h \/ h < end) THEN "exit"
  ELSE "proceed"

\* check_operating_hours with the end hour inside the window
check_operating_hours_closed(d, h, start, end, days) ==
  IF d \notin days THEN "exit"
  ELSE IF ~(start <= h /\ h <= end) THEN "exit"
  ELSE "proceed"

check_operating_hours(d, h, start, end, days) ==
  IF d \notin days THEN "exit"
  ELSE IF ~(start <= h /\ h < end) THEN "exit"
  ELSE "proceed"

(***************************************************************************)
(* Notifier: send_notification.  tok is whether PUSHPLUS_TOKEN is set when *)
(* the call reads it and net what the HTTP request does: "ok", "neterr"    *)
(* (requests.post raises) or "badstatus" (raise_for_status raises).        *)
(***************************************************************************)
NetOutcomes == {"ok", "neterr", "badstatus"}

\* send_notification without the try of line 112
send_notification_uncaught(tok, net) ==
  IF ~tok THEN [raised |-> FALSE, result |-> "skipped"]
  ELSE IF net = "ok" THEN [raised |-> FALSE, result |-> "sent"]
  ELSE [raised |-> TRUE, result |-> "failed"]

send_notification(tok, net) ==
  IF ~tok THEN [raised |-> FALSE, result |-> "skipped"]
  ELSE IF net = "ok" THEN [raised |-> FALSE, result |-> "sent"]
  ELSE [raised |-> FALSE, result |-> "failed"]

(***************************************************************************)
(* ExtractionService: analyze_screenshot.  A backend call either raises    *)
(* (exception or timeout) or returns a text that json.loads rejects        *)
(* ("malformed") or decodes ("json", with the decoded list).               *)
(***************************************************************************)
PRIMARY_MODEL == "primary"
FALLBACK_MODEL == "fallback"

NoCall == [kind |-> "none", value |-> <<>>]
Raises == [kind |-> "raise", value |-> <<>>]
Malformed == [kind |-> "malformed", value |-> <<>>]
Json(v) == [kind |-> "json", value |-> v]

\* json.loads(response.text): the decoded value, or "raise"
json_loads(resp) ==
  IF resp.kind = "json" THEN [raised |-> FALSE, value |-> resp.value]
  ELSE [raised |-> TRUE, value |-> <<>>]

\* analyze_screenshot without the handler of line 164: no fallback call
analyze_screenshot_no_fallback(p, f) ==
  [raised |-> FALSE, calls |-> <<PRIMARY_MODEL>>,
   result |-> IF json_loads(p).raised THEN <<>> ELSE json_loads(p).value]

\* analyze_screenshot without the outer handler of line 173
analyze_screenshot_uncaught(p, f) ==
  IF p.kind # "raise"
  THEN [raised |-> json_loads(p).raised, calls |-> <<PRIMARY_MODEL>>,
        result |-> IF json_loads(p).raised THEN <<>> ELSE json_loads(p).value]
  ELSE IF f.kind = "raise"
  THEN [raised |-> TRUE, calls |-> <<PRIMARY_MODEL, FALLBACK_MODEL>>,
        result |-> <<>>]
  ELSE [raised |-> json_loads(f).raised,
        calls |-> <<PRIMARY_MODEL, FALLBACK_MODEL>>,
        result |-> IF json_loads(f).raised THEN <<>> ELSE json_loads(f).value]

\* analyze_screenshot with json.loads inside the inner try: a primary
\* response that does not decode also goes to the fallback
analyze_screenshot_retry_malformed(p, f) ==
  IF p.kind = "json"
  THEN [raised |-> FALSE, calls |-> <<PRIMARY_MODEL>>, result |-> p.value]
  ELSE [raised |-> FALSE, calls |-> <<PRIMARY_MODEL, FALLBACK_MODEL>>,
        result |-> IF json_loads(f).raised THEN <<>> ELSE json_loads(f).value]

\* p: what call_model(PRIMARY_MODEL) does; f: what call_model(FALLBACK_MODEL)
\* does if it is called.  Returns the models called, the list returned and
\* whether an exception left the function.
analyze_screenshot(p, f) ==
  IF p.kind # "raise"
  THEN \* lines 163, 172: the primary response is decoded; line 173 catches
       [raised |-> FALSE, calls |-> <<PRIMARY_MODEL>>,
        result |-> IF json_loads(p).raised THEN <<>> ELSE json_loads(p).value]
  ELSE IF f.kind = "raise"
  THEN \* line 167 raises inside the handler of line 164; line 173 catches
       [raised |-> FALSE, calls |-> <<PRIMARY_MODEL, FALLBACK_MODEL>>,
        result |-> <<>>]
  ELSE \* lines 167, 172: the fallback response is decoded
       [raised |-> FALSE, calls |-> <<PRIMARY_MODEL, FALLBACK_MODEL>>,
        result |-> IF json_loads(f).raised THEN <<>> ELSE json_loads(f).value]

(***************************************************************************)
(* Inputs the environment supplies.                                        *)
(***************************************************************************)
\* identifier texts the inference backend returns
RawIds == { <<"A", " ", "1", "2", "3", "4">>,
            <<"1", "2", "3", "4", "-", "b">>,
            <<" ", "3", "X", "p">>,
            <<"-">> }

\* a decoded list element: wf is whether it is an object whose id and status
\* are strings (item.get and .strip work on it)
WellFormed(raw) == [wf |-> TRUE, id |-> raw]
BadItem == [wf |-> FALSE, id |-> <<>>]
Items == {WellFormed(r) : r \in RawIds} \cup {BadItem}

ItemLists == UNION {[1..n -> Items] : n \in 0..MaxItems}

Responses == {Raises, Malformed} \cup {Json(v) : v \in ItemLists}

Keys == {normalize_key(strip(r)) : r \in RawIds} \ {<<>>}

(***************************************************************************)
(* main: pieces of the loop body that decide what a candidate does.        *)
(***************************************************************************)
\* line 234 without the test for an empty key
is_new_unchecked_empty(unique_key, h) == unique_key \notin h

\* line 234: if unique_key and unique_key not in history
is_new(unique_key, h) == unique_key # <<>> /\ unique_key \notin h

\* line 238 left out
history_add_forgotten(h, unique_key) == h

\* line 238: history.add(unique_key)
history_add(h, unique_key) == h \cup {unique_key}

\* a send_notification call as the outside world sees it
Notice(kind, raw_id) == [kind |-> kind, id |-> raw_id]

(***************************************************************************)
(* State after construction: no process is running, no history file.       *)
(***************************************************************************)
Window == [start |-> 9, end |-> 17, days |-> {0, 1, 2, 3, 4}]

\* wall-clock readings the gate may get: inside the window, and at the same
\* hour of a day off
Clock == {<<0, 9>>, <<5, 9>>}

InitRest ==
  /\ file = <<>>
  /\ history = {}
  /\ new_findings = <<>>
  /\ api_key = FALSE
  /\ gated = FALSE
  /\ idx = 0
  /\ items = <<>>
  /\ pos = 0
  /\ hist0 = {}
  /\ calls = <<>>
  /\ primaryOut = NoCall
  /\ fallbackOut = NoCall
  /\ captureFailed = {}
  /\ visited = <<>>
  /\ log = <<>>
  /\ delivery = "none"
  /\ notified = [k \in Keys |-> 0]
  /\ text = <<>>
  /\ keys = <<>>

Init ==
  /\ InitRest
  /\ run = 0
  /\ pc = "idle"
  /\ force = FALSE
  /\ test_push = FALSE
  /\ day = -1
  /\ hour = -1
  /\ START_HOUR = Window.start
  /\ END_HOUR = Window.end
  /\ OPERATING_DAYS = Window.days
  /\ exitCode = 0

(***************************************************************************)
(* The external scheduler starts a process: arguments and environment are  *)
(* read, main's locals do not exist yet.                                   *)
(***************************************************************************)
StartRun ==
  /\ pc \in {"idle", "exited"}
  /\ run < MaxRuns
  /\ run' = run + 1
  /\ force' \in BOOLEAN
  /\ test_push' \in BOOLEAN
  /\ api_key' \in BOOLEAN
  /\ day' = -1
  /\ hour' = -1
  /\ pc' = "start"
  /\ exitCode' = -1
  /\ history' = {}
  /\ new_findings' = <<>>
  /\ gated' = FALSE
  /\ idx' = 0
  /\ items' = <<>>
  /\ pos' = 0
  /\ hist0' = {}
  /\ calls' = <<>>
  /\ primaryOut' = NoCall
  /\ fallbackOut' = NoCall
  /\ captureFailed' = {}
  /\ visited' = <<>>
  /\ log' = <<>>
  /\ delivery' = "none"
  /\ UNCHANGED <<text, keys, file, notified, START_HOUR, END_HOUR,
                 OPERATING_DAYS>>

\* --test-push without the return of line 186
TestPush_no_return ==
  /\ pc = "start"
  /\ test_push
  /\ log' = Append(log, Notice("test", <<>>))
  /\ \E tok \in BOOLEAN, net \in NetOutcomes :
       delivery' = send_notification(tok, net).result
  /\ pc' = "cred"
  /\ UNCHANGED <<file, history, new_findings, run, force, test_push, api_key,
                 day, hour, text, keys, START_HOUR, END_HOUR, OPERATING_DAYS,
                 gated, idx, items, pos, hist0, calls, primaryOut, fallbackOut,
                 captureFailed, visited, notified, exitCode>>

\* lines 183-186: --test-push sends one notification and returns
TestPush ==
  /\ pc = "start"
  /\ test_push
  /\ log' = Append(log, Notice("test", <<>>))
  /\ \E tok \in BOOLEAN, net \in NetOutcomes :
       delivery' = send_notification(tok, net).result
  /\ pc' = "exited"
  /\ exitCode' = 0
  /\ UNCHANGED <<file, history, new_findings, run, force, test_push, api_key,
                 day, hour, text, keys, START_HOUR, END_HOUR, OPERATING_DAYS,
                 gated,
                 idx, items, pos, hist0, calls, primaryOut, fallbackOut,
                 captureFailed, visited, notified>>

\* lines 188-189 with 57-71: the gate, consulted unless --force; clock is the
\* set of readings datetime.now may give
CheckHoursAt(clock) ==
  /\ pc = "start"
  /\ ~test_push
  /\ ~force
  /\ gated' = TRUE
  /\ \E now \in clock :
       /\ day' = now[1]
       /\ hour' = now[2]
       /\ IF check_operating_hours(now[1], now[2], START_HOUR, END_HOUR,
                                   OPERATING_DAYS) = "exit"
          THEN pc' = "exited" /\ exitCode' = 0
          ELSE pc' = "cred" /\ exitCode' = exitCode
  /\ UNCHANGED <<file, history, new_findings, run, force, test_push, api_key,
                 text, keys, START_HOUR, END_HOUR, OPERATING_DAYS,
                 idx, items, pos, hist0, calls, primaryOut, fallbackOut,
                 captureFailed, visited, log, delivery, notified>>

\* line 188 when --force is given: the gate is passed over
SkipGate ==
  /\ pc = "start"
  /\ ~test_push
  /\ force
  /\ pc' = "cred"
  /\ UNCHANGED <<file, history, new_findings, run, force, test_push, api_key,
                 day, hour, text, keys, START_HOUR, END_HOUR, OPERATING_DAYS,
                 gated,
                 idx, items, pos, hist0, calls, primaryOut, fallbackOut,
                 captureFailed, visited, log, delivery, notified, exitCode>>

\* main without the test of lines 192-194
Credentials_unchecked ==
  /\ pc = "cred"
  /\ pc' = "loop"
  /\ history' = load_history(file)
  /\ idx' = 1
  /\ UNCHANGED <<file, new_findings, run, force, test_push, api_key,
                 day, hour, text, keys, START_HOUR, END_HOUR, OPERATING_DAYS,
                 gated, items, pos, hist0, calls, primaryOut, fallbackOut,
                 captureFailed, visited, log, delivery, notified, exitCode>>

\* lines 191-203: credentials, then the history snapshot
Credentials ==
  /\ pc = "cred"
  /\ IF ~api_key
     THEN /\ pc' = "exited"
          /\ exitCode' = 1
          /\ UNCHANGED <<history, idx>>
     ELSE /\ pc' = "loop"
          /\ history' = load_history(file)
          /\ idx' = 1
          /\ exitCode' = exitCode
  /\ UNCHANGED <<file, new_findings, run, force, test_push, api_key,
                 day, hour, text, keys, START_HOUR, END_HOUR, OPERATING_DAYS,
                 gated,
                 items, pos, hist0, calls, primaryOut, fallbackOut,
                 captureFailed, visited, log, delivery, notified>>

CheckHours == CheckHoursAt(Clock)

(***************************************************************************)
(* The loop over TARGET_URLS, lines 209-253.                               *)
(***************************************************************************)
\* the capture outside the try of line 215: a failure ends the process
Capture_unguarded ==
  /\ pc = "loop"
  /\ idx <= NumTargets
  /\ visited' = Append(visited, idx)
  /\ \E ok \in BOOLEAN :
       IF ok
       THEN /\ pc' = "analyze"
            /\ UNCHANGED <<captureFailed, exitCode>>
       ELSE /\ pc' = "exited"
            /\ exitCode' = 1
            /\ captureFailed' = captureFailed \cup {idx}
  /\ UNCHANGED <<file, history, new_findings, run, force, test_push, api_key,
                 day, hour, text, keys, START_HOUR, END_HOUR, OPERATING_DAYS,
                 gated,
                 idx, items, pos, hist0, calls, primaryOut, fallbackOut, log,
                 delivery, notified>>

\* lines 214-221: page.goto, the settling wait and page.screenshot; when one
\* of them raises, control is in the handler of line 250
Capture ==
  /\ pc = "loop"
  /\ idx <= NumTargets
  /\ visited' = Append(visited, idx)
  /\ \E ok \in BOOLEAN :
       IF ok
       THEN /\ pc' = "analyze"
            /\ UNCHANGED captureFailed
       ELSE /\ pc' = "except"
            /\ captureFailed' = captureFailed \cup {idx}
  /\ UNCHANGED <<file, history, new_findings, run, force, test_push, api_key,
                 day, hour, text, keys, START_HOUR, END_HOUR, OPERATING_DAYS,
                 gated,
                 idx, items, pos, hist0, calls, primaryOut, fallbackOut, log,
                 delivery, notified, exitCode>>

\* line 223, inside analyze_screenshot: the backend calls and json.loads, up
\* to the return statement
Analyze ==
  /\ pc = "analyze"
  /\ \E p \in Responses :
       \E f \in (IF p.kind = "raise" THEN Responses ELSE {NoCall}) :
         /\ items' = analyze_screenshot(p, f).result
         /\ calls' = analyze_screenshot(p, f).calls
         /\ primaryOut' = p
         /\ fallbackOut' = f
         /\ pc' = IF analyze_screenshot(p, f).raised THEN "except" ELSE "analyzed"
  /\ UNCHANGED <<file, history, new_findings, run, force, test_push, api_key,
                 day, hour, text, keys, START_HOUR, END_HOUR, OPERATING_DAYS,
                 gated,
                 idx, pos, hist0, captureFailed, visited, log, delivery,
                 notified, exitCode>>

\* lines 223-226: analyze_screenshot has returned, its locals are gone; the
\* loop over items starts
Found ==
  /\ pc = "analyzed"
  /\ calls' = <<>>
  /\ primaryOut' = NoCall
  /\ fallbackOut' = NoCall
  /\ pos' = 1
  /\ hist0' = history
  /\ pc' = "items"
  /\ UNCHANGED <<file, history, new_findings, run, force, test_push, api_key,
                 day, hour, text, keys, START_HOUR, END_HOUR, OPERATING_DAYS,
                 gated,
                 idx, items, captureFailed, visited, log, delivery,
                 notified, exitCode>>

\* lines 226-248: one pass of the loop over items
ProcessItem ==
  /\ pc = "items"
  /\ pos <= Len(items)
  /\ LET item == items[pos]
         raw_id == strip(item.id)
         unique_key == normalize_key(raw_id)
     IN  IF ~item.wf
         THEN \* item.get or .strip raises: control is in the handler of line 250
              /\ pc' = "except"
              /\ UNCHANGED <<file, history, new_findings, pos, log, delivery,
                             notified>>
         ELSE IF is_new(unique_key, history)
         THEN /\ new_findings' = Append(new_findings, raw_id)
              /\ file' = save_history(file, unique_key)
              /\ history' = history_add(history, unique_key)
              /\ notified' = [notified EXCEPT ![unique_key] = @ + 1]
              /\ log' = Append(log, Notice("finding", raw_id))
              /\ \E tok \in BOOLEAN, net \in NetOutcomes :
                   LET sent == send_notification(tok, net)
                   IN  /\ delivery' = sent.result
                       /\ IF sent.raised
                          THEN pc' = "except" /\ pos' = pos
                          ELSE pc' = pc /\ pos' = pos + 1
         ELSE /\ pos' = pos + 1
              /\ UNCHANGED <<file, history, new_findings, pc, log, delivery,
                             notified>>
  /\ UNCHANGED <<text, keys, run, force, test_push, api_key, day, hour,
                 START_HOUR, END_HOUR, OPERATING_DAYS, gated, idx, items, hist0, calls,
                 primaryOut, fallbackOut, captureFailed, visited, exitCode>>

\* a handler that lets the exception out of main
HandleError_reraise ==
  /\ pc = "except"
  /\ pc' = "exited"
  /\ exitCode' = 1
  /\ UNCHANGED <<file, history, new_findings, run, force, test_push, api_key,
                 day, hour, text, keys, START_HOUR, END_HOUR, OPERATING_DAYS,
                 gated, idx, items, pos, hist0, calls, primaryOut, fallbackOut,
                 captureFailed, visited, log, delivery, notified>>

\* lines 250-253: the handler logs the error, the page is closed and the loop
\* goes on with the next target
HandleError ==
  /\ pc = "except"
  /\ idx' = idx + 1
  /\ items' = <<>>
  /\ pos' = 0
  /\ hist0' = {}
  /\ calls' = <<>>
  /\ primaryOut' = NoCall
  /\ fallbackOut' = NoCall
  /\ pc' = "loop"
  /\ UNCHANGED <<file, history, new_findings, run, force, test_push, api_key,
                 day, hour, text, keys, START_HOUR, END_HOUR, OPERATING_DAYS,
                 gated,
                 captureFailed, visited, log, delivery, notified, exitCode>>

\* the loop over items is exhausted: line 253, then the next target
EndTarget ==
  /\ pc = "items"
  /\ pos > Len(items)
  /\ idx' = idx + 1
  /\ items' = <<>>
  /\ pos' = 0
  /\ hist0' = {}
  /\ pc' = "loop"
  /\ UNCHANGED <<file, history, new_findings, run, force, test_push, api_key,
                 day, hour, text, keys, START_HOUR, END_HOUR, OPERATING_DAYS,
                 gated,
                 calls, primaryOut, fallbackOut, captureFailed, visited, log,
                 delivery, notified, exitCode>>

\* line 255 and the return of main: exit status 0
Finish ==
  /\ pc = "loop"
  /\ idx > NumTargets
  /\ pc' = "exited"
  /\ exitCode' = 0
  /\ UNCHANGED <<file, history, new_findings, run, force, test_push, api_key,
                 day, hour, text, keys, START_HOUR, END_HOUR, OPERATING_DAYS,
                 gated,
                 idx, items, pos, hist0, calls, primaryOut, fallbackOut,
                 captureFailed, visited, log, delivery, notified>>

Next ==
  \/ StartRun
  \/ TestPush
  \/ CheckHours
  \/ SkipGate
  \/ Credentials
  \/ Capture
  \/ Analyze
  \/ Found
  \/ ProcessItem
  \/ HandleError
  \/ EndTarget
  \/ Finish

Spec == Init /\ [][Next]_vars

(***************************************************************************)
(* The gate on its own: every clock reading against every window.          *)
(***************************************************************************)
DaySets == { {}, {0, 1, 2, 3, 4}, {5, 6}, {0, 1, 2, 3, 4, 5, 6} }

InitGate ==
  /\ InitRest
  /\ run = 1
  /\ pc = "start"
  /\ force = FALSE
  /\ test_push = FALSE
  /\ day = -1
  /\ hour = -1
  /\ START_HOUR \in 0..MaxHour
  /\ END_HOUR \in 0..MaxHour
  /\ OPERATING_DAYS \in DaySets
  /\ exitCode = -1

AllClock == (0..MaxDay) \X (0..MaxHour)

NextGate == CheckHoursAt(AllClock)

SpecGate == InitGate /\ [][NextGate]_vars

(***************************************************************************)
(* Vocabulary of the properties.                                           *)
(***************************************************************************)
\* the key the orchestrator derives from each id a response can hold,
\* computed once
KeyTable == [r \in RawIds |-> normalize_key(strip(r))]

\* the key the orchestrator derives from a decoded candidate
KeyOf(item) ==
  IF item.id \in RawIds THEN KeyTable[item.id]
  ELSE normalize_key(strip(item.id))

\* how many lines of the history file hold key k
Appends(k) ==
  Cardinality({n \in 1..Len(file_lines(file)) : strip(file_lines(file)[n]) = k})

\* how many notifications of this run are for a finding of key k
Notifs(k) ==
  Cardinality({n \in 1..Len(log) :
                 log[n].kind = "finding" /\ normalize_key(log[n].id) = k})

\* the loop over items has ended, by exhaustion or in the handler
TargetOver == (pc = "items" /\ pos > Len(items)) \/ pc = "except"

\* positions of the extraction output whose candidate has key k
Holding(k) == {n \in 1..Len(items) : items[n].wf /\ KeyOf(items[n]) = k}

\* the extraction output holds two candidates of key k, new at the capture
Twice(k) == Cardinality(Holding(k)) >= 2 /\ k \notin hist0

\* the clock is outside the operating window
Outside ==
  ~(day \in OPERATING_DAYS /\ START_HOUR <= hour /\ hour < END_HOUR)

AllTargets == [n \in 1..NumTargets |-> n]

(***************************************************************************)
(* C1: over all runs sharing the history file, and whatever the captures,  *)
(* extractions and notifications do, at most one notification is sent for  *)
(* any key.                                                                *)
(***************************************************************************)
C1_NotifiedAtMostOnce == \A k \in Keys : notified[k] <= 1

\* a later run meets a candidate of a key notified in an earlier run and
\* skips it
C1_Witness ==
  /\ run = 2
  /\ pc = "items"
  /\ pos = 2
  /\ items[1].wf
  /\ KeyOf(items[1]) \in Keys
  /\ notified[KeyOf(items[1])] = 1
  /\ log = <<>>

(***************************************************************************)
(* C2 as stated: when an extraction output holds two candidates of the     *)
(* same non-empty key, absent from history at the capture, the target ends *)
(* with exactly one history line and exactly one notification for it.      *)
(***************************************************************************)
C2_ExactlyOneFinding ==
  TargetOver =>
    \A k \in Keys : Twice(k) => Appends(k) = 1 /\ Notifs(k) = 1

(***************************************************************************)
(* C2 amended: such a key gets at most one history line and as many        *)
(* notifications as lines, and exactly one of each unless a malformed      *)
(* element earlier in the same output made the loop abandon the target     *)
(* before the first of the candidates was reached.                         *)
(***************************************************************************)
C2_OneFindingIfReached ==
  TargetOver =>
    \A k \in Keys :
      Twice(k) =>
        /\ Appends(k) <= 1
        /\ Notifs(k) = Appends(k)
        /\ (\A n \in 1..Len(items) : n < pos /\ n \in Holding(k) => Appends(k) = 1)
        /\ (\A m \in 1..Len(items) : (\A n \in Holding(k) : m < n) => items[m].wf)
             => Appends(k) = 1

\* both candidates of a new key were passed: one finding, the second skipped
C2_Witness ==
  /\ pc = "items"
  /\ pos > Len(items)
  /\ \E k \in Keys :
       /\ Twice(k)
       /\ Appends(k) = 1
       /\ Notifs(k) = 1
       /\ \E n \in Holding(k) : strip(items[n].id) \notin {log[m].id : m \in 1..Len(log)}

C4_FallbackOnAnyFailure ==
  pc = "analyzed" =>
    /\ calls[1] = PRIMARY_MODEL
    /\ primaryOut.kind \in {"raise", "malformed"}
         => calls = <<PRIMARY_MODEL, FALLBACK_MODEL>>
    /\ primaryOut.kind = "json" => calls = <<PRIMARY_MODEL>>

(***************************************************************************)
(* C4 amended: the primary model is called first; the fallback model is    *)
(* called, exactly once, exactly when the primary call raises; a primary   *)
(* response that does not decode is not retried and gives the empty list.  *)
(***************************************************************************)
C4_FallbackOnRaiseOnly ==
  pc = "analyzed" =>
    /\ calls[1] = PRIMARY_MODEL
    /\ primaryOut.kind = "raise" => calls = <<PRIMARY_MODEL, FALLBACK_MODEL>>
    /\ primaryOut.kind # "raise" => calls = <<PRIMARY_MODEL>> /\ fallbackOut = NoCall
    /\ primaryOut.kind = "malformed" => items = <<>>

\* the primary call raised and the fallback was called once
C4_Witness ==
  /\ pc = "analyzed"
  /\ primaryOut.kind = "raise"
  /\ fallbackOut.kind = "malformed"
  /\ calls = <<PRIMARY_MODEL, FALLBACK_MODEL>>

(***************************************************************************)
(* C5: analyze_screenshot never raises into main; when the fallback call   *)
(* raises too, or the response obtained does not decode, it returns the    *)
(* empty list, the target changes nothing and the loop takes the next      *)
(* target.                                                                 *)
(***************************************************************************)
ExtractionFailed ==
  \/ primaryOut.kind = "malformed"
  \/ primaryOut.kind = "raise" /\ fallbackOut.kind \in {"raise", "malformed"}

C5_ExtractNeverRaises ==
  /\ [](pc = "except" => calls = <<>>)
  /\ [](pc = "analyzed" /\ ExtractionFailed => items = <<>>)
  /\ [][pc = "analyze" => pc' = "analyzed"]_vars
  /\ [][pc = "analyzed" /\ ExtractionFailed
          => pc' = "items" /\ items' = <<>> /\ pos' > Len(items')]_vars
  /\ [][pc = "items" /\ items = <<>>
          => /\ pc' = "loop"
             /\ idx' = idx + 1
             /\ UNCHANGED <<file, history, new_findings, log, notified>>]_vars

\* both backend calls raised and the empty list came back
C5_Witness ==
  /\ pc = "analyzed"
  /\ primaryOut.kind = "raise"
  /\ fallbackOut.kind = "raise"
  /\ items = <<>>
  /\ idx < NumTargets

(***************************************************************************)
(* C6: one analysis calls [primary] or [primary, fallback] and no more;    *)
(* the fallback is called only after the primary call raised; when the     *)
(* primary call raises and the fallback response decodes, the list         *)
(* returned is the fallback's decoded list, and the loop over items starts *)
(* on it.                                                                  *)
(***************************************************************************)
C6_FallbackOutputUsed ==
  /\ [](pc = "analyzed" =>
          /\ calls \in {<<PRIMARY_MODEL>>, <<PRIMARY_MODEL, FALLBACK_MODEL>>}
          /\ FALLBACK_MODEL \in {calls[n] : n \in 1..Len(calls)}
               => primaryOut.kind = "raise"
          /\ primaryOut.kind = "raise" /\ fallbackOut.kind = "json"
               => items = fallbackOut.value)
  /\ [][pc = "analyzed" => pc' = "items" /\ pos' = 1 /\ items' = items]_vars

\* the primary call raised, the fallback returned candidates
C6_Witness ==
  /\ pc = "analyzed"
  /\ primaryOut.kind = "raise"
  /\ fallbackOut.kind = "json"
  /\ Len(fallbackOut.value) = MaxItems
  /\ items = fallbackOut.value

(***************************************************************************)
(* C7: send_notification never raises; whether the notification was sent,  *)
(* failed or was skipped for want of a token, the finding's key is in the  *)
(* history file and in the snapshot, and the loop goes on with the next    *)
(* candidate.                                                              *)
(***************************************************************************)
C7_NotifyFailureHarmless ==
  /\ [](\A n \in 1..Len(log) :
          log[n].kind = "finding" =>
            /\ normalize_key(log[n].id) \in history
            /\ normalize_key(log[n].id) \in load_history(file))
  /\ [](pc = "except" =>
          \/ idx \in captureFailed
          \/ pos \in 1..Len(items) /\ ~items[pos].wf)
  /\ [][log' # log /\ pc = "items"
          => /\ delivery' \in {"sent", "failed", "skipped"}
             /\ pc' = "items"
             /\ pos' = pos + 1
             /\ items' = items
             /\ idx' = idx]_vars

\* a notification failed, its key is kept, and the next candidate of the
\* same list was taken
C7_Witness ==
  /\ pc = "items"
  /\ delivery = "failed"
  /\ Len(log) = 1
  /\ pos = 3
  /\ KeyOf(items[1]) = normalize_key(log[1].id)
  /\ KeyOf(items[1]) \in history

(***************************************************************************)
(* C8: a candidate is promoted (one more line in the history file, its key *)
(* added to the snapshot, one notification) exactly when its key is not    *)
(* empty and not in the snapshot; any other candidate leaves file,         *)
(* snapshot and notifications alone.  A list whose candidates are all in   *)
(* history already leaves them alone altogether.                           *)
(***************************************************************************)
C8_PromotedIffNew ==
  /\ [][pc = "items" /\ pos <= Len(items) /\ items[pos].wf
          => LET k == KeyOf(items[pos])
             IN  IF k # <<>> /\ k \notin history
                 THEN /\ Len(file_lines(file')) = Len(file_lines(file)) + 1
                      /\ load_history(file') = load_history(file) \cup {k}
                      /\ history' = history \cup {k}
                      /\ Len(log') = Len(log) + 1
                      /\ log'[Len(log')] = [kind |-> "finding", id |-> strip(items[pos].id)]
                      /\ notified' = [notified EXCEPT ![k] = @ + 1]
                 ELSE UNCHANGED <<file, history, new_findings, log, delivery,
                                  notified>>]_vars
  /\ [](pc = "items" /\ (\A n \in 1..Len(items) : items[n].wf /\ KeyOf(items[n]) \in hist0)
          => history = hist0 /\ Len(log) = Len(new_findings))
  /\ [](Len(log) = Len(new_findings) \/ test_push)

\* a candidate with an empty key and a candidate already in history were
\* passed over and nothing was sent
C8_Witness ==
  /\ pc = "items"
  /\ pos = 3
  /\ items[1].wf
  /\ items[2].wf
  /\ KeyOf(items[1]) = <<>>
  /\ KeyOf(items[2]) \in hist0
  /\ history = hist0
  /\ log = <<>>
  /\ Appends(KeyOf(items[2])) = 1

(***************************************************************************)
(* C9: a run without --force whose clock reading is outside the window     *)
(* exits with 0 before any target: nothing is captured, appended or sent.  *)
(* With --force the gate is not consulted, and the run (given credentials) *)
(* visits every target.                                                    *)
(***************************************************************************)
C9_GateOrForce ==
  /\ [](gated /\ Outside =>
          /\ pc = "exited"
          /\ exitCode = 0
          /\ visited = <<>>
          /\ idx = 0
          /\ new_findings = <<>>
          /\ log = <<>>)
  /\ [][pc = "start" /\ ~force /\ ~test_push
          => /\ gated'
             /\ file' = file
             /\ notified' = notified
             /\ Outside' => pc' = "exited"]_vars
  /\ [](~test_push /\ ~force /\ pc \notin {"idle", "start"} => gated)
  /\ [](force => ~gated /\ day = -1)
  /\ [](force /\ ~test_push /\ api_key /\ pc = "exited"
          => visited = AllTargets /\ exitCode = 0)

\* the gate turned the run away on a day off, before the credentials were
\* looked at
C9_Witness ==
  /\ pc = "exited"
  /\ gated
  /\ Outside
  /\ ~api_key
  /\ exitCode = 0
  /\ run = 2
  /\ file # <<>>

(***************************************************************************)
(* C10: for every weekday, hour and window, the gate lets the run go on    *)
(* exactly when the day is an operating day and START_HOUR <= hour <       *)
(* END_HOUR; a window with START_HOUR > END_HOUR lets no run go on.        *)
(***************************************************************************)
C10_GateIffInWindow ==
  gated =>
    /\ pc = "cred" <=>
         (day \in OPERATING_DAYS /\ START_HOUR <= hour /\ hour < END_HOUR)
    /\ pc # "cred" => pc = "exited" /\ exitCode = 0
    /\ START_HOUR > END_HOUR => pc = "exited"

\* a window across midnight turns away an operating day's late hour
C10_Witness ==
  /\ gated
  /\ START_HOUR > END_HOUR
  /\ day \in OPERATING_DAYS
  /\ hour >= START_HOUR
  /\ pc = "exited"

(***************************************************************************)
(* C11 as stated: on an operating day, for every window with START_HOUR <= *)
(* END_HOUR, the gate turns the run away at hour = END_HOUR and lets it go *)
(* on at hour = START_HOUR.                                                *)
(***************************************************************************)
C11_HalfOpenFromStartLeEnd ==
  gated /\ day \in OPERATING_DAYS /\ START_HOUR <= END_HOUR =>
    /\ hour = END_HOUR => pc = "exited"
    /\ hour = START_HOUR => pc = "cred"

(***************************************************************************)
(* C11 amended: on an operating day the gate turns the run away at hour =  *)
(* END_HOUR for every window, and lets it go on at hour = START_HOUR for   *)
(* every window with START_HOUR < END_HOUR; a window with START_HOUR =     *)
(* END_HOUR is empty.                                                      *)
(***************************************************************************)
C11_HalfOpenFromStartLtEnd ==
  gated /\ day \in OPERATING_DAYS /\ START_HOUR <= END_HOUR =>
    /\ hour = END_HOUR => pc = "exited" /\ exitCode = 0
    /\ hour = START_HOUR /\ START_HOUR < END_HOUR => pc = "cred"
    /\ START_HOUR = END_HOUR => pc = "exited"

\* the end hour of a one-hour window on an operating day is turned away
C11_Witness ==
  /\ gated
  /\ day \in OPERATING_DAYS
  /\ END_HOUR = START_HOUR + 1
  /\ hour = END_HOUR
  /\ pc = "exited"

(***************************************************************************)
(* normalize_key and the history file on their own: a string is handed to  *)
(* normalize_key, the result is handed to it again, the first result is    *)
(* appended to a history file earlier runs may have written, and the file  *)
(* is loaded as a new process would.  The strings are made of pieces: one  *)
(* digit, two digits, a run of four, a decimal digit outside ASCII, a      *)
(* separator and two letters; neighbouring digit pieces form longer runs.  *)
(***************************************************************************)
Segments == { <<"1">>, <<"2", "3">>, <<"4", "5", "6", "7">>, <<"U+0663">>,
              <<"-">>, <<"x">>, <<"A">> }

\* the strings made of at most n pieces
RECURSIVE Texts(_)
Texts(n) ==
  IF n = 0 THEN {<<>>}
  ELSE LET shorter == Texts(n - 1)
       IN  shorter \cup {t \o s : t \in shorter, s \in Segments}

\* what earlier runs left in HISTORY_FILE: nothing, or every key of Keys
RECURSIVE SavedAll(_)
SavedAll(ks) ==
  IF ks = {} THEN <<>>
  ELSE LET k == CHOOSE x \in ks : \A y \in ks : Len(y) <= Len(x)
       IN  save_history(SavedAll(ks \ {k}), k)

StoreFiles == {<<>>, SavedAll(Keys)}

InitKey ==
  /\ text \in Texts(MaxSegs)
  /\ keys = <<>>
  /\ file \in StoreFiles
  /\ history = {}
  /\ pc = "normalize"
  /\ run = 0
  /\ force = FALSE
  /\ test_push = FALSE
  /\ api_key = FALSE
  /\ day = -1
  /\ hour = -1
  /\ START_HOUR = Window.start
  /\ END_HOUR = Window.end
  /\ OPERATING_DAYS = Window.days
  /\ gated = FALSE
  /\ idx = 0
  /\ items = <<>>
  /\ pos = 0
  /\ hist0 = {}
  /\ calls = <<>>
  /\ primaryOut = NoCall
  /\ fallbackOut = NoCall
  /\ captureFailed = {}
  /\ visited = <<>>
  /\ new_findings = <<>>
  /\ log = <<>>
  /\ delivery = "none"
  /\ notified = [k \in Keys |-> 0]
  /\ exitCode = -1

rest_vars == <<new_findings, run, force, test_push, api_key, day, hour,
               START_HOUR, END_HOUR, OPERATING_DAYS, gated, idx, items, pos,
               hist0, calls, primaryOut, fallbackOut, captureFailed, visited,
               log, delivery, notified, exitCode>>

\* normalize_key(text), then normalize_key of what that returned
NormalizeText ==
  /\ pc = "normalize"
  /\ keys' = Append(keys, normalize_key(IF keys = <<>> THEN text
                                        ELSE keys[Len(keys)]))
  /\ pc' = IF Len(keys) = 1 THEN "append" ELSE "normalize"
  /\ UNCHANGED <<text, file, history>>
  /\ UNCHANGED rest_vars

\* save_history(unique_key), for a unique_key that passes the test of main
AppendKey ==
  /\ pc = "append"
  /\ keys[1] # <<>>
  /\ file' = save_history(file, keys[1])
  /\ pc' = "reload"
  /\ UNCHANGED <<text, keys, history>>
  /\ UNCHANGED rest_vars

\* load_history() in a process started afterwards
ReloadHistory ==
  /\ pc = "reload"
  /\ history' = load_history(file)
  /\ pc' = "reloaded"
  /\ UNCHANGED <<text, keys, file>>
  /\ UNCHANGED rest_vars

NextKey ==
  \/ NormalizeText
  \/ AppendKey
  \/ ReloadHistory

SpecKey == InitKey /\ [][NextKey]_vars

\* four decimal digits start at position k of s
FourDigitsAt(s, k) == k + 3 <= Len(s) /\ \A m \in k..(k + 3) : s[m] \in Digits

HasRun(s) == \E k \in 1..Len(s) : FourDigitsAt(s, k)

\* s[a..b] is a whole digit run of length 4 or more and none starts before it
IsFirstRun(s, a, b) ==
  /\ a + 3 <= b
  /\ \A m \in a..b : s[m] \in Digits
  /\ a = 1 \/ s[a - 1] \notin Digits
  /\ b = Len(s) \/ s[b + 1] \notin Digits
  /\ \A k \in 1..(a - 1) : ~FourDigitsAt(s, k)

(***************************************************************************)
(* C12: for every string containing a run of 4 or more decimal digits,     *)
(* normalize_key returns exactly the leftmost such run, whole and with     *)
(* nothing else, whatever surrounds it and whatever shorter runs precede   *)
(* it.                                                                     *)
(***************************************************************************)
C12_FirstRunInFull ==
  Len(keys) >= 1 /\ HasRun(text) =>
    \E a \in 1..Len(text) : \E b \in a..Len(text) :
       IsFirstRun(text, a, b) /\ keys[1] = SubSeq(text, a, b)

\* a shorter run, then a run of four or more, then another one: the first
\* of the two is returned
C12_Witness ==
  /\ Len(keys) >= 1
  /\ \E a \in 3..Len(text) : \E b \in a..(Len(text) - 5) :
       /\ IsFirstRun(text, a, b)
       /\ text[1] \in Digits
       /\ HasRun(SubSeq(text, b + 1, Len(text)))
       /\ keys[1] = SubSeq(text, a, b)

(***************************************************************************)
(* C13 as stated: for every string with no digit run of length >= 4,       *)
(* normalize_key is idempotent, normalize(normalize(s)) = normalize(s).    *)
(***************************************************************************)
C13_Idempotent ==
  Len(keys) = 2 /\ ~HasRun(text) => keys[2] = keys[1]

(***************************************************************************)
(* C14: a key appended to the history file and then reloaded is in the     *)
(* reloaded set, for every non-empty result of normalize_key and whatever  *)
(* the file already held.                                                  *)
(***************************************************************************)
C14_AppendedKeyReloaded ==
  pc = "reloaded" => keys[1] \in history

\* a key of letters and digits reloaded from a file that held other keys
C14_Witness ==
  /\ pc = "reloaded"
  /\ ~HasRun(text)
  /\ Len(keys[1]) >= 2
  /\ keys[1] \notin Keys
  /\ keys[1] \in history
  /\ Keys \subseteq history

(***************************************************************************)
(* Runs that may be killed.  The process can die between any two steps of  *)
(* main, and inside the body of line 234 after any of its effects: its     *)
(* memory is gone, HISTORY_FILE and the notifications already sent stay.   *)
(***************************************************************************)
\* the loop body with the notification first
LoopBody_notify_first == <<"send_notification", "save_history", "history.add">>

\* lines 237, 238 and 243: the effects of promoting a candidate, in order
LoopBody == <<"save_history", "history.add", "send_notification">>

\* the process is gone: no exit status of its own, no locals
Killed ==
  /\ pc' = "exited"
  /\ exitCode' = 137
  /\ history' = {}
  /\ new_findings' = <<>>
  /\ day' = -1
  /\ hour' = -1
  /\ gated' = FALSE
  /\ idx' = 0
  /\ items' = <<>>
  /\ pos' = 0
  /\ hist0' = {}
  /\ calls' = <<>>
  /\ primaryOut' = NoCall
  /\ fallbackOut' = NoCall
  /\ captureFailed' = {}
  /\ visited' = <<>>
  /\ log' = <<>>
  /\ delivery' = "none"
  /\ UNCHANGED <<text, keys, run, force, test_push, api_key, START_HOUR,
                 END_HOUR, OPERATING_DAYS>>

\* killed between two steps of main
Crash ==
  /\ pc \notin {"idle", "exited"}
  /\ Killed
  /\ UNCHANGED <<file, notified>>

\* killed inside the body of line 234, after the first n of its effects
CrashInItem ==
  /\ pc = "items"
  /\ pos <= Len(items)
  /\ items[pos].wf
  /\ LET unique_key == normalize_key(strip(items[pos].id))
     IN  /\ is_new(unique_key, history)
         /\ \E n \in 1..Len(LoopBody) :
              LET done == {LoopBody[m] : m \in 1..n}
              IN  /\ file' = IF "save_history" \in done
                             THEN save_history(file, unique_key)
                             ELSE file
                  /\ notified' = IF "send_notification" \in done
                                 THEN [notified EXCEPT ![unique_key] = @ + 1]
                                 ELSE notified
  /\ Killed

NextCrash ==
  \/ Next
  \/ Crash
  \/ CrashInItem

SpecCrash == Init /\ [][NextCrash]_vars

(***************************************************************************)
(* C15: the history file is append-only.  Over any sequence of runs,       *)
(* failed targets and killed processes, no step removes a key from the     *)
(* set of keys in the file, and a step that changes the file adds one line *)
(* at its end, holding exactly one key the file did not have.              *)
(***************************************************************************)
C15_AppendOnly ==
  [][file' # file =>
       /\ load_history(file) \subseteq load_history(file')
       /\ \E k \in Keys :
            /\ file' = file \o k \o <<NL>>
            /\ k \notin load_history(file)
            /\ load_history(file') = load_history(file) \cup {k}]_vars

\* a second run, one of whose targets failed, appends a second key behind
\* the one a first run wrote before it was killed
C15_Witness ==
  /\ run = 2
  /\ captureFailed # {}
  /\ Len(new_findings) = 1
  /\ Cardinality(load_history(file)) = 2
  /\ Len(file_lines(file)) = 2
  /\ delivery = "failed"
  /\ \E k \in load_history(file) : notified[k] = 0

(***************************************************************************)
(* C16 as stated: without GEMINI_API_KEY every pipeline run, forced or     *)
(* not, inside or outside the operating window, ends before any target     *)
(* with a non-zero exit status.                                            *)
(***************************************************************************)
C16_NoCredentialsAlwaysFatal ==
  ~test_push /\ ~api_key /\ pc = "exited" /\ run >= 1 =>
    exitCode # 0 /\ visited = <<>>

(***************************************************************************)
(* C16 amended: without GEMINI_API_KEY no pipeline run reaches a target;   *)
(* a forced run and a run inside the operating window end with exit status *)
(* 1, an unforced run outside the window ends at the gate with exit status *)
(* 0, before the credentials are looked at.                                *)
(***************************************************************************)
C16_NoCredentialsFatalPastGate ==
  ~test_push /\ ~api_key /\ run >= 1 =>
    /\ pc \in {"start", "cred", "exited"}
    /\ visited = <<>> /\ idx = 0 /\ calls = <<>> /\ log = <<>>
    /\ pc = "exited" => exitCode = (IF gated /\ Outside THEN 0 ELSE 1)

\* an unforced run inside the window, without credentials, has exited with 1
C16_Witness ==
  /\ pc = "exited"
  /\ ~test_push
  /\ ~api_key
  /\ ~force
  /\ gated
  /\ ~Outside
  /\ exitCode = 1
  /\ visited = <<>>

(***************************************************************************)
(* C17: with --test-push the process makes exactly one send_notification   *)
(* call and exits: the gate is not consulted, the history file is neither  *)
(* loaded nor appended to, no target is captured or analysed.              *)
(***************************************************************************)
C17_TestPushOnly ==
  [][pc = "start" /\ test_push =>
       /\ pc' = "exited"
       /\ exitCode' = 0
       /\ log' = <<Notice("test", <<>>)>>
       /\ UNCHANGED <<file, history, new_findings, gated, day, hour, idx,
                      visited, calls, primaryOut, fallbackOut, items,
                      notified>>]_vars

\* a test push made when the history file holds keys: nothing was loaded
C17_Witness ==
  /\ test_push
  /\ pc = "exited"
  /\ exitCode = 0
  /\ Len(log) = 1
  /\ log[1].kind = "test"
  /\ file # <<>>
  /\ history = {}
  /\ ~gated
  /\ visited = <<>>

\* the keys promoted when the first n elements of its are scanned in order
\* by a process whose snapshot held seen: the first occurrences of new keys
RECURSIVE Scan(_, _, _)
Scan(its, n, seen) ==
  IF n = 0 THEN <<>>
  ELSE LET before == Scan(its, n - 1, seen)
           k == KeyOf(its[n])
       IN  IF /\ its[n].wf
              /\ k # <<>>
              /\ k \notin seen
              /\ \A m \in 1..Len(before) : before[m] # k
           THEN Append(before, k)
           ELSE before

\* the keys on the last n lines of the history file, in file order
LastKeys(f, n) ==
  LET lines == file_lines(f)
  IN  [m \in 1..n |-> strip(lines[Len(lines) - n + m])]

\* the keys of the findings of this run, in the order they were confirmed
FoundKeys == [m \in 1..Len(new_findings) |-> KeyOf(WellFormed(new_findings[m]))]

(***************************************************************************)
(* C18: within a run the keys are appended to the history file in the      *)
(* order the findings are confirmed, which is the order of the first       *)
(* occurrences of new keys when the candidates are scanned target by       *)
(* target in the order of TARGET_URLS and, within a target, in the order   *)
(* of the extraction output; targets are taken one at a time, in order.    *)
(***************************************************************************)
C18_AppendsInScanOrder ==
  /\ visited = [n \in 1..Len(visited) |-> n]
  /\ pc \in {"analyze", "analyzed", "items", "except"} => idx = Len(visited)
  /\ pc = "loop" => idx = Len(visited) + 1
  /\ LET found == FoundKeys
         nf == Len(new_findings)
     IN  /\ nf > 0 => /\ Len(file_lines(file)) >= nf
                       /\ LastKeys(file, nf) = found
         /\ pc \in {"items", "except"} /\ pos >= 1 =>
              LET promoted == Scan(items, pos - 1, hist0)
                  n == Len(promoted)
              IN  /\ nf >= n
                  /\ \A m \in 1..n : found[nf - n + m] = promoted[m]
                  /\ history = hist0 \cup {promoted[m] : m \in 1..n}

\* the second target is being scanned; the first gave a finding, the second
\* gave another after a candidate that repeats the first
C18_Witness ==
  /\ pc = "items"
  /\ idx = 2
  /\ pos = 3
  /\ Len(new_findings) = 2
  /\ FoundKeys[1] # FoundKeys[2]
  /\ KeyOf(items[1]) = FoundKeys[1]
  /\ Scan(items, 2, hist0) = <<FoundKeys[2]>>
  /\ LastKeys(file, 2) = FoundKeys

(***************************************************************************)
(* A started process keeps running: main is one sequential thread, so      *)
(* whichever of its steps is enabled is eventually taken.  When the        *)
(* scheduler starts the next process is left open.                         *)
(***************************************************************************)
RunStep ==
  \/ TestPush
  \/ CheckHours
  \/ SkipGate
  \/ Credentials
  \/ Capture
  \/ Analyze
  \/ Found
  \/ ProcessItem
  \/ HandleError
  \/ EndTarget
  \/ Finish

SpecLive == Init /\ [][Next]_vars /\ WF_vars(RunStep)

\* the run is past the gate and the credentials and enters the loop
EntersLoop == pc = "loop" /\ idx = 1

\* main has returned after the loop took every target once, in order
Done == pc = "exited" /\ exitCode = 0 /\ visited = AllTargets

====
